---- MODULE Spec2Model ----
(***************************************************************************)
(* Course-Helper backend (src/api/index.js, authMiddleware.js): an Express *)
(* router in front of a hosted store.  Every route is a handler that may   *)
(* be suspended once, at its await of the external call; several requests  *)
(* can be suspended at the same time.  A request is modelled from what the *)
(* handler reads: req.headers.authorization (as the word list that         *)
(* split(" ") produces), req.params.id, req.body and req.file.             *)
(***************************************************************************)
EXTENDS Integers, Sequences, FiniteSets, TLC

\* ---------------------------------------------------------------- bounds
\* number of ids the store ever assigns (and the range of :id parameters)
MaxId == 2

\* requests in flight at the same time.  r1 carries any request; r2 carries
\* the overlapping one, a write to the course table that reaches the store
\* (a request answered before its first await overlaps with nothing).
Reqs == {"r1", "r2"}
General == {"r1"}

\* --------------------------------------------------- values of the inputs
\* an optional JS value: <<>> is undefined, <<v>> is the value v
None == <<>>
Some(v) == <<v>>

Codes == {"c1", "c2"}
Usernames == {"u1"}
Passwords == {"p1", "p2"}

\* the words of the Authorization header; <<>> is "no header"
PassingHeader == <<"Bearer", "tokValid">>
OtherScheme == <<"Basic", "tokValid">>
RejectedHeaders ==
  { <<>>, <<"Bearer">>, <<"Bearer", "tokExpired">>, <<"Bearer", "tokMalformed">> }
Headers == RejectedHeaders \cup {PassingHeader, OtherScheme}

\* req.body.  defined = FALSE is req.body === undefined (what body-parser 2
\* leaves when the request has no JSON body; body-parser 1 leaves {}).
NoBody ==
  [defined |-> FALSE, name |-> None, code |-> None, description |-> None,
   credit |-> None, image |-> None, username |-> None, password |-> None]

EmptyObj == [NoBody EXCEPT !.defined = TRUE]

FullBody(c) ==
  [EmptyObj EXCEPT !.name = Some("n1"), !.code = Some(c),
                   !.description = Some("d1"), !.credit = Some(3),
                   !.image = Some("img1")]

CourseFields == {"name", "code", "description", "credit", "image"}

\* a body with exactly one of the five fields left out
Without(b, f) ==
  CASE f = "name" -> [b EXCEPT !.name = None]
    [] f = "code" -> [b EXCEPT !.code = None]
    [] f = "description" -> [b EXCEPT !.description = None]
    [] f = "credit" -> [b EXCEPT !.credit = None]
    [] f = "image" -> [b EXCEPT !.image = None]

FullBodies == {FullBody(c) : c \in Codes}

DefectiveBodies ==
  {NoBody, EmptyObj, [FullBody("c1") EXCEPT !.credit = Some(0)]}
    \cup {Without(FullBody("c1"), f) : f \in CourseFields}

CourseBodies == FullBodies \cup DefectiveBodies

Credentials(u, p) == [EmptyObj EXCEPT !.username = Some(u), !.password = Some(p)]

RegisterBodies == {NoBody, EmptyObj} \cup {Credentials(u, "p1") : u \in Usernames}

LoginBodies == {NoBody} \cup {Credentials(u, p) : u \in Usernames, p \in Passwords}

IdParams == 1..MaxId

\* the inputs of the gated routes: every body behind the passing header,
\* every other header in front of one body
CreateInputs ==
  ({PassingHeader} \X CourseBodies)
    \cup (RejectedHeaders \X {Without(FullBody("c1"), "name")})
    \cup {<<OtherScheme, FullBody("c1")>>}

UpdateInputs ==
  ({PassingHeader} \X IdParams \X FullBodies)
    \cup ({PassingHeader} \X {1} \X {NoBody, Without(FullBody("c1"), "code")})
    \cup ((RejectedHeaders \cup {OtherScheme}) \X {1} \X {FullBody("c1")})

DeleteInputs ==
  ({PassingHeader} \X IdParams) \cup ((RejectedHeaders \cup {OtherScheme}) \X {1})

ListHeaders == {<<>>, PassingHeader}

NoReq == [route |-> "none", hdr |-> <<>>, id |-> 0, body |-> NoBody, file |-> FALSE]
NoRes == [status |-> 0, message |-> ""]
NoRet == [error |-> "", length |-> 0]

VARIABLES
  courses,   \* the rows of the store's table "courses"
  nextId,    \* the id the store assigns to the next inserted row
  users,     \* the identity provider's accounts: [username, password]
  pc,        \* per request: "idle", "await" (external call pending), "done", "escaped"
  req,       \* per request: what the handler reads of the request
  ret,       \* per request: error and data.length of the { data, error } awaited
  res        \* per request: the response sent (status 0: none)

vars == <<courses, nextId, users, pc, req, ret, res>>

\* ------------------------------------------------------------ the gate
\* authHeader.split(" ")[1]
SplitToken(h) == IF Len(h) >= 2 THEN Some(h[2]) ELSE None

\* jwt.verify(token, secret): returns for a well-signed unexpired token, throws otherwise
JwtVerify(tok) == tok = "tokValid"

\* !x for a header / token string
FalsyStr(o) == o = None \/ o = Some("")

GateNext == 0

\* the gate with the catch answering like the missing-token branch
authenticateTokenCatch401(h) ==
  IF h = <<>> THEN 401
  ELSE IF FalsyStr(SplitToken(h)) THEN 401
  ELSE IF JwtVerify(SplitToken(h)[1]) THEN GateNext
  ELSE 401

\* the gate without the call of jwt.verify
authenticateTokenNoVerify(h) ==
  IF h = <<>> THEN 401
  ELSE IF FalsyStr(SplitToken(h)) THEN 401
  ELSE GateNext

\* the status the gate answers with, or GateNext when it calls next()
authenticateToken(h) ==
  IF h = <<>> THEN 401
  ELSE IF FalsyStr(SplitToken(h)) THEN 401
  ELSE IF JwtVerify(SplitToken(h)[1]) THEN GateNext
  ELSE 403

GateMessage(h) ==
  IF h = <<>> THEN "Authorization header missing"
  ELSE IF FalsyStr(SplitToken(h)) THEN "Access token required"
  ELSE "Invalid or expired token"

\* ------------------------------------------------------ field validation
\* !credit for a number
FalsyNum(o) == o = None \/ o = Some(0)

\* the validation without its test of image
MissingFieldNoImage(b) ==
  FalsyStr(b.name) \/ FalsyStr(b.code) \/ FalsyStr(b.description)
    \/ FalsyNum(b.credit)

\* !name || !code || !description || !credit || !image
MissingField(b) ==
  FalsyStr(b.name) \/ FalsyStr(b.code) \/ FalsyStr(b.description)
    \/ FalsyNum(b.credit) \/ FalsyStr(b.image)

\* --------------------------------------------------------- state helpers
Free(r) == pc[r] # "await"

Respond(r, st, msg) ==
  /\ pc' = [pc EXCEPT ![r] = "done"]
  /\ ret' = [ret EXCEPT ![r] = NoRet]
  /\ res' = [res EXCEPT ![r] = [status |-> st, message |-> msg]]

\* destructuring req.body outside try when req.body is undefined: the
\* TypeError leaves the async handler, no response is sent by it
Escape(r) ==
  /\ pc' = [pc EXCEPT ![r] = "escaped"]
  /\ ret' = [ret EXCEPT ![r] = NoRet]
  /\ res' = [res EXCEPT ![r] = NoRes]

Suspend(r) ==
  /\ pc' = [pc EXCEPT ![r] = "await"]
  /\ ret' = [ret EXCEPT ![r] = NoRet]
  /\ res' = [res EXCEPT ![r] = NoRes]

Accept(r, q) == /\ Free(r)
                /\ req' = [req EXCEPT ![r] = q]

Overlaps(r, suspends) == r \in General \/ suspends

\* ------------------------------------------------------ the hosted store
\* the result { data, error } of a call, and the table after it
Result(err, rows, table) == [error |-> err, data |-> rows, table |-> table]

\* any call can fail for a reason of the service's own (network, outage)
StoreFail == Result("other", {}, courses)

\* the unique constraint on courses.code
CodeTaken(code, exceptId) ==
  \E c \in courses : c.code = code /\ c.id # exceptId

Row(id, b) ==
  [id |-> id, name |-> b.name[1], code |-> b.code[1],
   description |-> b.description[1], credit |-> b.credit[1],
   image |-> b.image[1]]

\* .from("courses").insert([{...}]).select()
StoreInsert(b) ==
  IF CodeTaken(b.code[1], 0)
  THEN Result("23505", {}, courses)
  ELSE Result("none", {Row(nextId, b)}, courses \cup {Row(nextId, b)})

\* .from("courses").update({...}).eq("id", id).select()
StoreUpdate(id, b) ==
  LET hit == {c \in courses : c.id = id} IN
  IF hit = {} THEN Result("none", {}, courses)
  ELSE IF CodeTaken(b.code[1], id) THEN Result("23505", {}, courses)
  ELSE Result("none", {Row(id, b)}, (courses \ hit) \cup {Row(id, b)})

\* the delete without its .eq("id", id) filter
StoreDeleteAll(id) == Result("none", courses, {})

\* .from("courses").delete().eq("id", id).select()
StoreDelete(id) ==
  LET hit == {c \in courses : c.id = id} IN
  Result("none", hit, courses \ hit)

\* .from("courses").select("*")
StoreSelect == Result("none", courses, courses)

\* ------------------------------------------------- the identity provider
AuthResult(msg, accounts) == [error |-> msg, accounts |-> accounts]

AuthFail == AuthResult("fetch failed", users)

Registered(u) == \E a \in users : a.username = u

\* supabase.auth.signUp({ email, password })
SignUp(b) ==
  IF b.username = None \/ b.password = None
  THEN AuthResult("Anonymous sign-ins are disabled", users)
  ELSE IF Registered(b.username[1])
  THEN AuthResult("User already registered", users)
  ELSE AuthResult("", users \cup {[username |-> b.username[1],
                                   password |-> b.password[1]]})

\* supabase.auth.signInWithPassword({ email, password })
SignIn(b) ==
  IF /\ b.username # None
     /\ b.password # None
     /\ [username |-> b.username[1], password |-> b.password[1]] \in users
  THEN AuthResult("", users)
  ELSE AuthResult("Invalid login credentials", users)

\* error.message.includes(part), over the messages the provider sends
Includes(msg, part) ==
  \/ part = "already registered" /\ msg = "User already registered"
  \/ part = "Invalid login credentials" /\ msg = "Invalid login credentials"

\* the create handler without its test of the code 23505
CreateStatusNoConflict(result) ==
  IF result.error # "none" THEN 500 ELSE 201

\* ------------------------------------------- mapping results to responses
\* POST /courses after the await
CreateStatus(result) ==
  IF result.error # "none"
  THEN IF result.error = "23505" THEN 400 ELSE 500
  ELSE 201

CreateMessage(result) ==
  IF result.error # "none"
  THEN IF result.error = "23505" THEN "Course with this code already exists"
       ELSE "Failed to add course"
  ELSE ""

\* the update handler without its test of data.length
UpdateStatusNoLength(result) ==
  IF result.error # "none" THEN 500 ELSE 200

\* the update handler with the create handler's test of the code 23505
UpdateStatusConflict(result) ==
  IF result.error # "none"
  THEN IF result.error = "23505" THEN 400 ELSE 500
  ELSE IF Cardinality(result.data) = 0 THEN 404
  ELSE 200

\* PUT /courses/:id after the await
UpdateStatus(result) ==
  IF result.error # "none" THEN 500
  ELSE IF Cardinality(result.data) = 0 THEN 404
  ELSE 200

UpdateMessage(result) ==
  IF result.error # "none" THEN "Failed to update course"
  ELSE IF Cardinality(result.data) = 0 THEN "Course not found"
  ELSE ""

\* DELETE /courses/:id after the await
DeleteStatus(result) ==
  IF result.error # "none" THEN 500
  ELSE IF Cardinality(result.data) = 0 THEN 404
  ELSE 200

DeleteMessage(result) ==
  IF result.error # "none" THEN "Server error"
  ELSE IF Cardinality(result.data) = 0 THEN "Course not found"
  ELSE "Course deleted successfully"

\* the register handler without its test of the error message
RegisterStatusNoMatch(result) ==
  IF result.error # "" THEN 500 ELSE 201

\* POST /register after the await
RegisterStatus(result) ==
  IF result.error # ""
  THEN IF Includes(result.error, "already registered") THEN 400 ELSE 500
  ELSE 201

RegisterMessage(result) ==
  IF result.error # ""
  THEN IF Includes(result.error, "already registered")
       THEN "Username already exists" ELSE "Internal Server Error"
  ELSE "User registered successfully"

\* POST /login after the await
LoginStatus(result) ==
  IF result.error # ""
  THEN IF Includes(result.error, "Invalid login credentials") THEN 400 ELSE 500
  ELSE 200

LoginMessage(result) ==
  IF result.error # ""
  THEN IF Includes(result.error, "Invalid login credentials")
       THEN "Invalid credentials" ELSE "Internal Server Error"
  ELSE ""

Init ==
  /\ courses = {}
  /\ nextId = 1
  /\ users = {}
  /\ pc = [r \in Reqs |-> "idle"]
  /\ req = [r \in Reqs |-> NoReq]
  /\ ret = [r \in Reqs |-> NoRet]
  /\ res = [r \in Reqs |-> NoRes]

\* ------------------------------------------------------------- the routes
Request(route, h, id, b, f) ==
  [route |-> route, hdr |-> h, id |-> id, body |-> b, file |-> f]

Store == <<courses, nextId, users>>

\* the continuation of a handler after its await
Resume(r, result, st, msg) ==
  /\ pc' = [pc EXCEPT ![r] = "done"]
  /\ ret' = [ret EXCEPT ![r] = [error |-> result.error,
                                  length |-> Cardinality(result.data)]]
  /\ res' = [res EXCEPT ![r] = [status |-> st, message |-> msg]]
  /\ UNCHANGED req

Awaiting(r, route) == pc[r] = "await" /\ req[r].route = route

\* app.get("/")
Root(r) ==
  /\ Overlaps(r, FALSE)
  /\ Accept(r, Request("GET /", <<>>, 0, NoBody, FALSE))
  /\ Respond(r, 200, "Our backend is running!")
  /\ UNCHANGED Store

\* app.get("/courses"), up to the await; no gate is mounted on the route
ListRequest(r, h) ==
  /\ Overlaps(r, FALSE)
  /\ Accept(r, Request("GET /courses", h, 0, NoBody, FALSE))
  /\ Suspend(r)
  /\ UNCHANGED Store

ListReturn(r) ==
  /\ Awaiting(r, "GET /courses")
  /\ \E result \in {StoreSelect, StoreFail} :
       Resume(r, result, IF result.error # "none" THEN 500 ELSE 200,
                 IF result.error # "none" THEN "Server error" ELSE "")
  /\ UNCHANGED Store

\* the ids still to be assigned cover the inserts in flight
InsertsPending == Cardinality({q \in Reqs : Awaiting(q, "POST /courses")})

\* app.post("/courses", authenticateToken, ...), up to the await
CreateRequest(r, h, b) ==
  /\ nextId + InsertsPending <= MaxId
  /\ Overlaps(r, authenticateToken(h) = GateNext /\ ~MissingField(b))
  /\ Accept(r, Request("POST /courses", h, 0, b, FALSE))
  /\ IF authenticateToken(h) # GateNext
       THEN Respond(r, authenticateToken(h), GateMessage(h))
     ELSE IF ~b.defined THEN Escape(r)
     ELSE IF MissingField(b) THEN Respond(r, 400, "All fields must be provided")
     ELSE Suspend(r)
  /\ UNCHANGED Store

CreateReturn(r) ==
  /\ Awaiting(r, "POST /courses")
  /\ \E result \in {StoreInsert(req[r].body), StoreFail} :
       /\ courses' = result.table
       /\ nextId' = IF result.error = "none" THEN nextId + 1 ELSE nextId
       /\ Resume(r, result, CreateStatus(result), CreateMessage(result))
  /\ UNCHANGED users

\* app.put("/courses/:id", authenticateToken, ...), up to the await
UpdateRequest(r, h, id, b) ==
  /\ Overlaps(r, authenticateToken(h) = GateNext /\ ~MissingField(b))
  /\ Accept(r, Request("PUT /courses/:id", h, id, b, FALSE))
  /\ IF authenticateToken(h) # GateNext
       THEN Respond(r, authenticateToken(h), GateMessage(h))
     ELSE IF ~b.defined THEN Escape(r)
     ELSE IF MissingField(b) THEN Respond(r, 400, "All fields must be provided")
     ELSE Suspend(r)
  /\ UNCHANGED Store

UpdateReturn(r) ==
  /\ Awaiting(r, "PUT /courses/:id")
  /\ \E result \in {StoreUpdate(req[r].id, req[r].body), StoreFail} :
       /\ courses' = result.table
       /\ Resume(r, result, UpdateStatus(result), UpdateMessage(result))
  /\ UNCHANGED <<nextId, users>>

\* app.delete("/courses/:id", authenticateToken, ...), up to the await
DeleteRequest(r, h, id) ==
  /\ Overlaps(r, authenticateToken(h) = GateNext)
  /\ Accept(r, Request("DELETE /courses/:id", h, id, NoBody, FALSE))
  /\ IF authenticateToken(h) # GateNext
       THEN Respond(r, authenticateToken(h), GateMessage(h))
     ELSE Suspend(r)
  /\ UNCHANGED Store

DeleteReturn(r) ==
  /\ Awaiting(r, "DELETE /courses/:id")
  /\ \E result \in {StoreDelete(req[r].id), StoreFail} :
       /\ courses' = result.table
       /\ Resume(r, result, DeleteStatus(result), DeleteMessage(result))
  /\ UNCHANGED <<nextId, users>>

\* app.post("/register"), up to the await
RegisterRequest(r, b) ==
  /\ Overlaps(r, FALSE)
  /\ Accept(r, Request("POST /register", <<>>, 0, b, FALSE))
  /\ IF ~b.defined THEN Escape(r) ELSE Suspend(r)
  /\ UNCHANGED Store

RegisterReturn(r) ==
  /\ Awaiting(r, "POST /register")
  /\ \E result \in {SignUp(req[r].body), AuthFail} :
       /\ users' = result.accounts
       /\ Resume(r, [error |-> result.error, data |-> {}],
                 RegisterStatus(result), RegisterMessage(result))
  /\ UNCHANGED <<courses, nextId>>

\* app.post("/login"), up to the await
LoginRequest(r, b) ==
  /\ Overlaps(r, FALSE)
  /\ Accept(r, Request("POST /login", <<>>, 0, b, FALSE))
  /\ IF ~b.defined THEN Escape(r) ELSE Suspend(r)
  /\ UNCHANGED Store

LoginReturn(r) ==
  /\ Awaiting(r, "POST /login")
  /\ \E result \in {SignIn(req[r].body), AuthFail} :
       Resume(r, [error |-> result.error, data |-> {}],
                 LoginStatus(result), LoginMessage(result))
  /\ UNCHANGED Store

\* app.post("/upload-image", upload.single("image"), ...), up to the await;
\* reading req.file.mimetype of an absent file throws inside the try
UploadRequest(r, f) ==
  /\ Overlaps(r, FALSE)
  /\ Accept(r, Request("POST /upload-image", <<>>, 0, NoBody, f))
  /\ IF ~f THEN Respond(r, 500, "Image upload failed") ELSE Suspend(r)
  /\ UNCHANGED Store

\* cloudinary.uploader.upload resolves or rejects
UploadReturn(r) ==
  /\ Awaiting(r, "POST /upload-image")
  /\ \E err \in {"", "upload failed"} :
       Resume(r, [error |-> err, data |-> {}],
                 IF err # "" THEN 500 ELSE 200,
                 IF err # "" THEN "Image upload failed" ELSE "")
  /\ UNCHANGED Store

Next ==
  \E r \in Reqs :
    \/ Root(r)
    \/ \E h \in ListHeaders : ListRequest(r, h)
    \/ ListReturn(r)
    \/ \E i \in CreateInputs : CreateRequest(r, i[1], i[2])
    \/ CreateReturn(r)
    \/ \E i \in UpdateInputs : UpdateRequest(r, i[1], i[2], i[3])
    \/ UpdateReturn(r)
    \/ \E i \in DeleteInputs : DeleteRequest(r, i[1], i[2])
    \/ DeleteReturn(r)
    \/ \E b \in RegisterBodies : RegisterRequest(r, b)
    \/ RegisterReturn(r)
    \/ \E b \in LoginBodies : LoginRequest(r, b)
    \/ LoginReturn(r)
    \/ \E f \in BOOLEAN : UploadRequest(r, f)
    \/ UploadReturn(r)

Spec == Init /\ [][Next]_vars

\* ================================================================ claims
MutatingRoutes == {"POST /courses", "PUT /courses/:id", "DELETE /courses/:id"}

Started(r) == pc[r] # "idle"
Answered(r, st) == pc[r] = "done" /\ res[r].status = st

\* the word after the scheme word of the header, "" when there is none
Carried(h) == IF Len(h) >= 2 THEN h[2] ELSE ""

\* the gate sent nothing and the route handler ran
PassedOn(r) ==
  \/ pc[r] \in {"await", "escaped"}
  \/ pc[r] = "done" /\ res[r].status \notin {401, 403}

\* the step in which request r is answered after its await
Returns(r, route) == Awaiting(r, route) /\ pc'[r] = "done"

\* C1: on a mutating course route a request without Authorization header is
\* answered 401, one carrying an expired or malformed token is answered 403,
\* and one carrying a valid token is passed on to the route handler with no
\* response from the gate.
C1_Gate ==
  \A r \in Reqs :
    (Started(r) /\ req[r].route \in MutatingRoutes) =>
      /\ req[r].hdr = <<>> => Answered(r, 401)
      /\ Carried(req[r].hdr) \in {"tokExpired", "tokMalformed"} => Answered(r, 403)
      /\ Carried(req[r].hdr) = "tokValid" => PassedOn(r)

C1_Witness ==
  /\ \E r \in Reqs : req[r].route = "POST /courses" /\ req[r].hdr = <<>>
                     /\ Answered(r, 401)
  /\ \E r \in Reqs : req[r].route = "DELETE /courses/:id"
                     /\ req[r].hdr = PassingHeader /\ pc[r] = "await"

\* C2: the course rows change only in the step that completes the store call
\* of a create, update or delete request whose token the gate verified as
\* valid; and GET /courses is answered 200 without any token when the store
\* answers.
C2_OnlyVerifiedWrites ==
  /\ [][courses' # courses =>
          \E r \in Reqs : /\ req[r].route \in MutatingRoutes
                          /\ Returns(r, req[r].route)
                          /\ Carried(req[r].hdr) = "tokValid"]_vars
  /\ [](\A r \in Reqs :
          (req[r].route = "GET /courses" /\ pc[r] = "done") =>
             res[r].status = IF ret[r].error = "none" THEN 200 ELSE 500)

C2_Witness ==
  /\ \E r \in Reqs : req[r].route = "POST /courses" /\ Answered(r, 201)
                     /\ \E c \in courses : c.code = req[r].body.code[1]
  /\ \E r \in Reqs : req[r].route = "GET /courses" /\ req[r].hdr = <<>>
                     /\ Answered(r, 200)

\* a body that lacks one of the five fields
Lacks(b) ==
  \E f \in CourseFields :
    CASE f = "name" -> b.name = None
      [] f = "code" -> b.code = None
      [] f = "description" -> b.description = None
      [] f = "credit" -> b.credit = None
      [] f = "image" -> b.image = None

\* C3 as stated: every POST /courses whose body object lacks one of the five
\* fields is answered 400.
C3_Original ==
  \A r \in Reqs :
    (Started(r) /\ req[r].route = "POST /courses"
       /\ req[r].body.defined /\ Lacks(req[r].body)) => Answered(r, 400)

\* C3 amended: a POST /courses lacking one of the five fields never reaches
\* the store's insert; it is answered 401 or 403 when the gate rejects it,
\* 400 when it passes the gate with a body object, and is left unanswered by
\* the handler when it passes the gate with req.body undefined.
C3_MissingField ==
  \A r \in Reqs :
    (Started(r) /\ req[r].route = "POST /courses" /\ Lacks(req[r].body)) =>
      /\ pc[r] # "await"
      /\ ret[r] = NoRet
      /\ IF Carried(req[r].hdr) # "tokValid" THEN res[r].status \in {401, 403}
         ELSE IF req[r].body.defined THEN Answered(r, 400)
         ELSE pc[r] = "escaped"

C3_Witness ==
  \E r \in Reqs : /\ req[r].route = "POST /courses"
                  /\ req[r].hdr = PassingHeader
                  /\ req[r].body = Without(FullBody("c1"), "image")
                  /\ Answered(r, 400)

RowsWithCode(code) == {c \in courses : c.code = code}

\* C4: when the store executes the insert of a create request whose code a
\* row already has, the request is answered 400 and the rows stay as they
\* are; at all times a code has at most one row.
C4_DuplicateCode ==
  /\ [][\A r \in Reqs :
          (/\ Returns(r, "POST /courses")
           /\ RowsWithCode(req[r].body.code[1]) # {}
           /\ ret'[r].error # "other")
            => (res'[r].status = 400 /\ courses' = courses)]_vars
  /\ [](\A code \in Codes : Cardinality(RowsWithCode(code)) <= 1)

C4_Witness ==
  \E r, q \in Reqs :
    /\ r # q
    /\ req[r].route = "POST /courses" /\ req[q].route = "POST /courses"
    /\ req[r].body.code = req[q].body.code
    /\ Answered(q, 201)
    /\ Answered(r, 400)
    /\ Cardinality(RowsWithCode(req[r].body.code[1])) = 1

\* C5: when the store executes the update of a request whose id no row has,
\* the request is answered 404 and the store stays as it is.
C5_UpdateMissing ==
  [][\A r \in Reqs :
       (/\ Returns(r, "PUT /courses/:id")
        /\ ~\E c \in courses : c.id = req[r].id
        /\ ret'[r].error # "other")
         => (res'[r].status = 404 /\ UNCHANGED Store)]_vars

C5_Witness ==
  \E r \in Reqs : /\ req[r].route = "PUT /courses/:id"
                  /\ Answered(r, 404)
                  /\ ~\E c \in courses : c.id = req[r].id

\* C6: when the store executes the delete of a request, an id no row has is
\* answered 404 and removes nothing; an id a row has is answered 200 and
\* removes that row and no other.
C6_Delete ==
  [][\A r \in Reqs :
       (Returns(r, "DELETE /courses/:id") /\ ret'[r].error # "other") =>
          LET hit == {c \in courses : c.id = req[r].id} IN
          IF hit = {}
          THEN res'[r].status = 404 /\ courses' = courses
          ELSE res'[r].status = 200 /\ courses' = courses \ hit
               /\ Cardinality(hit) = 1]_vars

C6_Witness ==
  \E r \in Reqs : /\ req[r].route = "DELETE /courses/:id"
                  /\ Answered(r, 200)
                  /\ courses # {}
                  /\ ~\E c \in courses : c.id = req[r].id

\* C7 as stated: every handler sends exactly one response; no exception
\* leaves a handler with the request unanswered.
C7_AlwaysAnswered ==
  \A r \in Reqs : pc[r] # "escaped"

\* C8 as stated: a request whose header has another scheme word than Bearer
\* in front of the token is not passed on to the route handler.
C8_BearerOnly ==
  \A r \in Reqs :
    (/\ Started(r)
     /\ req[r].route \in MutatingRoutes
     /\ Len(req[r].hdr) >= 2
     /\ req[r].hdr[1] # "Bearer") => ~PassedOn(r)

\* C9: when the provider answers a registration, a username that has an
\* account is answered 400 "Username already exists" and a fresh one 201;
\* an account once registered stays, so every later registration of its
\* username is answered 400.
C9_Register ==
  [][/\ \A r \in Reqs :
          (/\ Returns(r, "POST /register")
           /\ req[r].body.username # None
           /\ req[r].body.password # None
           /\ ret'[r].error # "fetch failed")
            => IF \E a \in users : a.username = req[r].body.username[1]
               THEN res'[r] = [status |-> 400, message |-> "Username already exists"]
               ELSE /\ res'[r].status = 201
                    /\ \E a \in users' : a.username = req[r].body.username[1]
     /\ \A u \in Usernames :
          (\E a \in users : a.username = u) => (\E a \in users' : a.username = u)]_vars

C9_Witness ==
  \E r \in Reqs : /\ req[r].route = "POST /register"
                  /\ res[r] = [status |-> 400, message |-> "Username already exists"]
                  /\ pc[r] = "done"

\* C10: no two rows share a code; an update that would give a row the code
\* of another row is answered 500 and leaves the store as it is.
C10_UniqueCode ==
  /\ [](\A c, d \in courses : c.code = d.code => c = d)
  /\ [][\A r \in Reqs :
          (/\ Returns(r, "PUT /courses/:id")
           /\ \E c \in courses : c.id = req[r].id
           /\ \E d \in courses : d.id # req[r].id /\ d.code = req[r].body.code[1])
            => (res'[r].status = 500 /\ UNCHANGED Store)]_vars

C10_Witness ==
  \E r \in Reqs : /\ req[r].route = "PUT /courses/:id"
                  /\ pc[r] = "done"
                  /\ ret[r].error = "23505"
                  /\ res[r] = [status |-> 500, message |-> "Failed to update course"]

====
